---------------------------- MODULE Spec2Model ----------------------------
(***************************************************************************)
(* Model of src/server.js: the slot reservation and area inventory         *)
(* handlers of the parking backend.                                        *)
(*                                                                         *)
(* The store is three MongoDB collections (parking_areas, slots,           *)
(* bookings).  Every request handler is an async function; each awaited    *)
(* collection call is one atomic store operation, and other requests may   *)
(* run between two awaits.  The model therefore has one action per awaited *)
(* store call of each handler, and a handler's local variables live in     *)
(* req[p] while request slot p is in flight.                               *)
(*                                                                         *)
(* POST /api/bookings (256-300) and POST /api/owner/bookings (498-538)     *)
(* have the same body; the Reserve* actions model both.                    *)
(*                                                                         *)
(* Out of the model: the users and register_login collections (the        *)
(* register_login update at 378/432 touches nothing the handlers below     *)
(* read), malformed ObjectId strings, and a request whose two totals are   *)
(* both 0 (insertMany is then handed an empty batch).                      *)
(*                                                                         *)
(* connectDB (58-76) runs once when the module is loaded; every handler    *)
(* starts with "await dbPromise" and so runs only once it has returned.    *)
(* Init is the state in which the first connection attempt has succeeded;  *)
(* InitStartup is the state in which that attempt is still in flight.      *)
(***************************************************************************)
EXTENDS Integers, Sequences, FiniteSets, TLC

\* ------------------------------------------------------------- bounds
MaxProcs == 2        \* requests that can be in flight together
MaxTotal == 1        \* largest total_car_slots / total_bike_slots requested
MaxRequests == 4     \* requests ever admitted

\* let retries = 5
MaxRetries == 5

Procs == 1..MaxProcs
VehicleTypes == {"car", "bike"}
Names == {"A"}
Locations == {"L1"}
Amounts == {50, 75}
ExitTimes == {"t1"}

\* current_booking_id: null, exit_time / amount not yet set
Null == "null"

VARIABLES
    parking_areas,   \* collection: sequence of area documents, _id = index
    slots,           \* collection: set of slot documents
    bookings,        \* collection: sequence of booking documents, _id = index
    nextSlotId,      \* next fresh slot _id
    req,             \* per request slot: the handler's position and locals
    response,        \* the last response sent by any handler
    requests,        \* number of requests admitted so far
    pre,             \* history: parking_areas as the last reservation found it, when
                     \* that reservation was admitted with no other request in flight
                     \* and no response was sent since
    connection,      \* connectDB: "connecting" (client.connect() in flight),
                     \* "sleeping" (the 2 s timer), "connected" (dbPromise
                     \* resolved), "exited" (process.exit(1))
    retries,         \* connectDB's local
    attempts         \* history: calls of client.connect() so far

\* the state of connectDB
startup == <<connection, retries, attempts>>

vars == <<parking_areas, slots, bookings, nextSlotId, req, response, requests, pre,
          connection, retries, attempts>>

\* ------------------------------------------------------------ helpers
Min(S) == CHOOSE x \in S : \A y \in S : x <= y

AreaIds == 1..Len(parking_areas)
BookingIds == 1..Len(bookings)

NoReq ==
    [op |-> "none", pc |-> "idle", parking_id |-> 0, slot_id |-> 0,
     vehicle_type |-> "", exit_time |-> Null, amount |-> 0,
     name |-> "", location |-> "", total_car_slots |-> 0, total_bike_slots |-> 0,
     slot_number |-> 0, insertedId |-> 0, existingId |-> 0, slotsChanged |-> FALSE,
     matched |-> 0]

InFlight(p) == req[p].pc # "idle"
Quiescent == \A p \in Procs : ~InFlight(p)

Init ==
    /\ parking_areas = <<>>
    /\ slots = {}
    /\ bookings = <<>>
    /\ nextSlotId = 1
    /\ req = [p \in Procs |-> NoReq]
    /\ response = "none"
    /\ requests = 0
    /\ pre = <<>>
    /\ connection = "connected"
    /\ retries = MaxRetries
    /\ attempts = 1

\* A request is admitted into the first free request slot, once dbPromise
\* has resolved.
Admit(p) ==
    /\ connection = "connected"
    /\ UNCHANGED startup
    /\ ~InFlight(p)
    /\ \A q \in Procs : q < p => InFlight(q)
    /\ requests < MaxRequests
    /\ requests' = requests + 1

\* A response ends a handler: the request slot is free again.
Respond(p, message) ==
    /\ response' = message
    /\ req' = [req EXCEPT ![p] = NoReq]

\* ---------------------------------------- POST /api/bookings, /api/owner/bookings
\* slot = findOne({_id: slot_id}); null when no such document
FindSlot(slot_id) == {s \in slots : s._id = slot_id}

\* an availability check that only asks whether the slot exists
SlotNotAvailable_ExistsOnly(slot_id) == FindSlot(slot_id) = {}

\* !slot || slot.status !== "available"
SlotNotAvailable(slot_id) ==
    \/ FindSlot(slot_id) = {}
    \/ \E s \in FindSlot(slot_id) : s.status # "available"

\* a booking $inc that forgets the booked counter
BookUpdateField_AvailableOnly(area, vehicle_type) ==
    IF vehicle_type = "car"
    THEN [area EXCEPT !.available_car_slots = @ - 1]
    ELSE [area EXCEPT !.available_bike_slots = @ - 1]

\* updateField of the booking handlers: $inc by the request's vehicle_type
BookUpdateField(area, vehicle_type) ==
    IF vehicle_type = "car"
    THEN [area EXCEPT !.available_car_slots = @ - 1, !.booked_car_slots = @ + 1]
    ELSE [area EXCEPT !.available_bike_slots = @ - 1, !.booked_bike_slots = @ + 1]

\* findOne and the check, for a slot that is missing or not available: the
\* handler answers without reading the rest of the request
ReserveRefused(p, slot_id) ==
    /\ Admit(p)
    /\ SlotNotAvailable(slot_id)
    /\ Respond(p, "Slot not available")
    /\ pre' = <<>>
    /\ UNCHANGED <<parking_areas, slots, bookings, nextSlotId>>

\* findOne and the check, for an available slot
ReserveFindSlot(p, parking_id, slot_id, vehicle_type) ==
    /\ Admit(p)
    /\ ~SlotNotAvailable(slot_id)
    /\ req' = [req EXCEPT ![p] =
           [NoReq EXCEPT !.op = "reserve", !.pc = "r_insert",
                         !.parking_id = parking_id, !.slot_id = slot_id,
                         !.vehicle_type = vehicle_type,
                         !.slot_number =
                             (CHOOSE s \in FindSlot(slot_id) : TRUE).slot_number]]
    /\ pre' = IF Quiescent THEN parking_areas ELSE <<>>
    /\ UNCHANGED <<parking_areas, slots, bookings, nextSlotId, response>>

ReserveInsertBooking(p) ==
    /\ req[p].pc = "r_insert"
    /\ bookings' = Append(bookings,
           [parking_id |-> req[p].parking_id, slot_id |-> req[p].slot_id,
            vehicle_type |-> req[p].vehicle_type, status |-> "active",
            exit_time |-> Null, amount |-> 0])
    /\ req' = [req EXCEPT ![p].pc = "r_slot", ![p].insertedId = Len(bookings) + 1]
    /\ UNCHANGED <<startup, requests, parking_areas, slots, nextSlotId, response, pre>>

ReserveUpdateSlot(p) ==
    /\ req[p].pc = "r_slot"
    /\ slots' = {IF s._id = req[p].slot_id
                 THEN [s EXCEPT !.status = "booked",
                                !.current_booking_id = req[p].insertedId]
                 ELSE s : s \in slots}
    /\ req' = [req EXCEPT ![p].pc = "r_area"]
    /\ UNCHANGED <<startup, requests, parking_areas, bookings, nextSlotId, response, pre>>

ReserveUpdateArea(p) ==
    /\ req[p].pc = "r_area"
    /\ parking_areas' = [a \in AreaIds |->
           IF a = req[p].parking_id
           THEN BookUpdateField(parking_areas[a], req[p].vehicle_type)
           ELSE parking_areas[a]]
    /\ Respond(p, "Slot booked")
    /\ UNCHANGED <<startup, requests, slots, bookings, nextSlotId, pre>>

\* ------------------------------------------- POST /api/owner/bookings/complete
\* a completion filter that forgets status: "active"
ActiveBookings_AnyStatus(slot_id) ==
    {b \in BookingIds : bookings[b].slot_id = slot_id}

\* filter {slot_id, status: "active"}
ActiveBookings(slot_id) ==
    {b \in BookingIds : bookings[b].slot_id = slot_id /\ bookings[b].status = "active"}

\* updateField of the completion handler: $inc by the request's vehicle_type
CompleteUpdateField(area, vehicle_type) ==
    IF vehicle_type = "car"
    THEN [area EXCEPT !.available_car_slots = @ + 1, !.booked_car_slots = @ - 1]
    ELSE [area EXCEPT !.available_bike_slots = @ + 1, !.booked_bike_slots = @ - 1]

\* the conditional updateOne when it matches nothing: matchedCount === 0
CompleteRefused(p, slot_id) ==
    /\ Admit(p)
    /\ ActiveBookings(slot_id) = {}
    /\ Respond(p, "No active booking found")
    /\ pre' = <<>>
    /\ UNCHANGED <<parking_areas, slots, bookings, nextSlotId>>

\* the conditional updateOne when it matches: the first active booking of the
\* slot is completed
CompleteUpdateBooking(p, slot_id, parking_id, vehicle_type, exit_time, amount) ==
    /\ Admit(p)
    /\ ActiveBookings(slot_id) # {}
    /\ LET b == Min(ActiveBookings(slot_id)) IN
       /\ bookings' = [bookings EXCEPT ![b].status = "completed",
                                        ![b].exit_time = exit_time,
                                        ![b].amount = amount]
       /\ req' = [req EXCEPT ![p] =
              [NoReq EXCEPT !.op = "complete", !.pc = "c_slot",
                            !.parking_id = parking_id, !.slot_id = slot_id,
                            !.vehicle_type = vehicle_type, !.matched = b]]
    /\ UNCHANGED <<parking_areas, slots, nextSlotId, response, pre>>

CompleteUpdateSlot(p) ==
    /\ req[p].pc = "c_slot"
    /\ slots' = {IF s._id = req[p].slot_id
                 THEN [s EXCEPT !.status = "available", !.current_booking_id = 0]
                 ELSE s : s \in slots}
    /\ req' = [req EXCEPT ![p].pc = "c_area"]
    /\ UNCHANGED <<startup, requests, parking_areas, bookings, nextSlotId, response, pre>>

CompleteUpdateArea(p) ==
    /\ req[p].pc = "c_area"
    /\ parking_areas' = [a \in AreaIds |->
           IF a = req[p].parking_id
           THEN CompleteUpdateField(parking_areas[a], req[p].vehicle_type)
           ELSE parking_areas[a]]
    /\ Respond(p, "Booking completed and slot freed")
    /\ pre' = <<>>
    /\ UNCHANGED <<startup, requests, slots, bookings, nextSlotId>>

\* --------------------------------------------- POST /api/owner/parking_areas
\* findOne({name}): areas are never deleted, the first match is the oldest
AreasNamed(name) == {a \in AreaIds : parking_areas[a].name = name}

\* regenerated slots that take the _ids of the first slots again
NewSlots_ReusedIds(parkingId, total_car_slots, total_bike_slots, firstId) ==
    {[_id |-> i, parking_id |-> parkingId, slot_number |-> i,
      vehicle_type |-> "car", status |-> "available", current_booking_id |-> 0]
        : i \in 1..total_car_slots}
    \cup
    {[_id |-> total_car_slots + i, parking_id |-> parkingId,
      slot_number |-> i, vehicle_type |-> "bike", status |-> "available",
      current_booking_id |-> 0]
        : i \in 1..total_bike_slots}

\* [...newCarSlots, ...newBikeSlots] with the _ids insertMany gives them
NewSlots(parkingId, total_car_slots, total_bike_slots, firstId) ==
    {[_id |-> firstId + i - 1, parking_id |-> parkingId, slot_number |-> i,
      vehicle_type |-> "car", status |-> "available", current_booking_id |-> 0]
        : i \in 1..total_car_slots}
    \cup
    {[_id |-> firstId + total_car_slots + i - 1, parking_id |-> parkingId,
      slot_number |-> i, vehicle_type |-> "bike", status |-> "available",
      current_booking_id |-> 0]
        : i \in 1..total_bike_slots}

\* a new area that starts with nothing available
NewArea_NoneAvailable(name, location, total_car_slots, total_bike_slots) ==
    [name |-> name, location |-> location,
     total_car_slots |-> total_car_slots,
     available_car_slots |-> 0,
     booked_car_slots |-> 0,
     total_bike_slots |-> total_bike_slots,
     available_bike_slots |-> 0,
     booked_bike_slots |-> 0]

\* the document of a new area
NewArea(name, location, total_car_slots, total_bike_slots) ==
    [name |-> name, location |-> location,
     total_car_slots |-> total_car_slots,
     available_car_slots |-> total_car_slots,
     booked_car_slots |-> 0,
     total_bike_slots |-> total_bike_slots,
     available_bike_slots |-> total_bike_slots,
     booked_bike_slots |-> 0]

\* a reset that sets the available counters and leaves the booked ones
ResetCounters_AvailableOnly(area, total_car_slots, total_bike_slots) ==
    [area EXCEPT !.available_car_slots = total_car_slots,
                 !.available_bike_slots = total_bike_slots]

\* $set of the counters after the slots were regenerated
ResetCounters(area, total_car_slots, total_bike_slots) ==
    [area EXCEPT !.available_car_slots = total_car_slots,
                 !.booked_car_slots = 0,
                 !.available_bike_slots = total_bike_slots,
                 !.booked_bike_slots = 0]

\* a handler that regenerates the slots on every request
SlotsChanged_Always(existingArea, total_car_slots, total_bike_slots) == TRUE

\* carSlotsChanged || bikeSlotsChanged, against the area as read
SlotsChanged(existingArea, total_car_slots, total_bike_slots) ==
    \/ total_car_slots # existingArea.total_car_slots
    \/ total_bike_slots # existingArea.total_bike_slots

AreaFind(p, name, location, total_car_slots, total_bike_slots) ==
    /\ Admit(p)
    /\ total_car_slots + total_bike_slots > 0
    /\ LET r == [NoReq EXCEPT !.op = "area", !.name = name, !.location = location,
                              !.total_car_slots = total_car_slots,
                              !.total_bike_slots = total_bike_slots]
       IN IF AreasNamed(name) # {}
          THEN LET e == Min(AreasNamed(name)) IN
               req' = [req EXCEPT ![p] =
                   [r EXCEPT !.pc = "a_update", !.existingId = e,
                             !.slotsChanged =
                                 SlotsChanged(parking_areas[e], total_car_slots,
                                              total_bike_slots)]]
          ELSE req' = [req EXCEPT ![p] = [r EXCEPT !.pc = "a_create"]]
    /\ UNCHANGED <<parking_areas, slots, bookings, nextSlotId, response, pre>>

AreaUpdateTotals(p) ==
    /\ req[p].pc = "a_update"
    /\ LET e == Min(AreasNamed(req[p].name)) IN
       parking_areas' = [parking_areas EXCEPT
           ![e].location = req[p].location,
           ![e].total_car_slots = req[p].total_car_slots,
           ![e].total_bike_slots = req[p].total_bike_slots]
    /\ IF req[p].slotsChanged
       THEN /\ req' = [req EXCEPT ![p].pc = "a_delete"]
            /\ UNCHANGED <<response, pre>>
       ELSE /\ Respond(p, "Parking area updated successfully")
            /\ pre' = <<>>
    /\ UNCHANGED <<startup, requests, slots, bookings, nextSlotId>>

AreaDeleteSlots(p) ==
    /\ req[p].pc = "a_delete"
    /\ slots' = {s \in slots : s.parking_id # req[p].existingId}
    /\ req' = [req EXCEPT ![p].pc = "a_insert"]
    /\ UNCHANGED <<startup, requests, parking_areas, bookings, nextSlotId, response, pre>>

AreaInsertSlots(p) ==
    /\ req[p].pc = "a_insert"
    /\ slots' = slots \cup NewSlots(req[p].existingId, req[p].total_car_slots,
                                     req[p].total_bike_slots, nextSlotId)
    /\ nextSlotId' = nextSlotId + req[p].total_car_slots + req[p].total_bike_slots
    /\ req' = [req EXCEPT ![p].pc = "a_reset"]
    /\ UNCHANGED <<startup, requests, parking_areas, bookings, response, pre>>

AreaResetCounters(p) ==
    /\ req[p].pc = "a_reset"
    /\ parking_areas' = [a \in AreaIds |->
           IF a = req[p].existingId
           THEN ResetCounters(parking_areas[a], req[p].total_car_slots,
                              req[p].total_bike_slots)
           ELSE parking_areas[a]]
    /\ Respond(p, "Parking area updated successfully")
    /\ pre' = <<>>
    /\ UNCHANGED <<startup, requests, slots, bookings, nextSlotId>>

AreaInsert(p) ==
    /\ req[p].pc = "a_create"
    /\ parking_areas' = Append(parking_areas,
           NewArea(req[p].name, req[p].location, req[p].total_car_slots,
                   req[p].total_bike_slots))
    /\ req' = [req EXCEPT ![p].pc = "a_createSlots",
                          ![p].insertedId = Len(parking_areas) + 1]
    /\ UNCHANGED <<startup, requests, slots, bookings, nextSlotId, response, pre>>

AreaCreateSlots(p) ==
    /\ req[p].pc = "a_createSlots"
    /\ slots' = slots \cup NewSlots(req[p].insertedId, req[p].total_car_slots,
                                     req[p].total_bike_slots, nextSlotId)
    /\ nextSlotId' = nextSlotId + req[p].total_car_slots + req[p].total_bike_slots
    /\ Respond(p, "Parking area created")
    /\ pre' = <<>>
    /\ UNCHANGED <<startup, requests, parking_areas, bookings>>

\* ------------------------------------------------------- specifications
\* the ids a request can name: every document ever inserted, and one that is not
SlotIdInputs == 1..nextSlotId
AreaIdInputs == 1..(Len(parking_areas) + 1)
Totals == 0..MaxTotal

Reserve ==
    \E p \in Procs, slot_id \in SlotIdInputs :
        \/ ReserveRefused(p, slot_id)
        \/ \E parking_id \in AreaIdInputs, vehicle_type \in VehicleTypes :
               ReserveFindSlot(p, parking_id, slot_id, vehicle_type)

Complete ==
    \E p \in Procs, slot_id \in SlotIdInputs :
        \/ CompleteRefused(p, slot_id)
        \/ \E parking_id \in AreaIdInputs, vehicle_type \in VehicleTypes,
              exit_time \in ExitTimes, amount \in Amounts :
               CompleteUpdateBooking(p, slot_id, parking_id, vehicle_type,
                                     exit_time, amount)

CreateOrResize(names, locations) ==
    \E p \in Procs, name \in names, location \in locations,
       total_car_slots \in Totals, total_bike_slots \in Totals :
        AreaFind(p, name, location, total_car_slots, total_bike_slots)

ReserveStep ==
    \E p \in Procs :
        ReserveInsertBooking(p) \/ ReserveUpdateSlot(p) \/ ReserveUpdateArea(p)

CompleteStep ==
    \E p \in Procs : CompleteUpdateSlot(p) \/ CompleteUpdateArea(p)

AreaStep ==
    \E p \in Procs :
        \/ AreaUpdateTotals(p) \/ AreaDeleteSlots(p) \/ AreaInsertSlots(p)
        \/ AreaResetCounters(p) \/ AreaInsert(p) \/ AreaCreateSlots(p)

\* requests arrive at any time and interleave at every await
AnyCreateOrResize == CreateOrResize(Names, Locations)

Next ==
    \/ Reserve \/ Complete \/ AnyCreateOrResize
    \/ ReserveStep \/ CompleteStep \/ AreaStep

Spec == Init /\ [][Next]_vars

\* one request at a time: a request is admitted only when none is in flight
SeqReserve == Quiescent /\ Reserve
SeqComplete == Quiescent /\ Complete
SeqCreateOrResize == Quiescent /\ AnyCreateOrResize

NextSeq ==
    \/ SeqReserve \/ SeqComplete \/ SeqCreateOrResize
    \/ ReserveStep \/ CompleteStep \/ AreaStep

SpecSeq == Init /\ [][NextSeq]_vars

\* ----------------------------------------------------------- properties
SlotsOf(a, vehicle_type, status) ==
    {s \in slots : s.parking_id = a /\ s.vehicle_type = vehicle_type
                                     /\ s.status = status}

C2_AtMostOneActiveBookingPerSlot ==
    \A id \in SlotIdInputs : Cardinality(ActiveBookings(id)) <= 1

\* C3: of the concurrent reservations of one available slot exactly one
\* succeeds: no two requests are both past the availability check of the same
\* slot with neither booking inserted yet.
C3_ExactlyOneReservationWins ==
    \A p, q \in Procs :
        (p # q /\ req[p].pc = "r_insert" /\ req[q].pc = "r_insert")
            => req[p].slot_id # req[q].slot_id

\* C4: after any sequence of calls the booked counter of every area and type
\* is the number of its slots of that type that are booked, and the available
\* counter the number that are available.
C4_CountersMatchSlots ==
    Quiescent =>
        \A a \in AreaIds :
            /\ parking_areas[a].booked_car_slots
                   = Cardinality(SlotsOf(a, "car", "booked"))
            /\ parking_areas[a].available_car_slots
                   = Cardinality(SlotsOf(a, "car", "available"))
            /\ parking_areas[a].booked_bike_slots
                   = Cardinality(SlotsOf(a, "bike", "booked"))
            /\ parking_areas[a].available_bike_slots
                   = Cardinality(SlotsOf(a, "bike", "available"))

\* the step with which the handler of request slot p sends its response
Responds(p) == InFlight(p) /\ ~InFlight(p)'

Counters(area) ==
    <<area.available_car_slots, area.booked_car_slots,
      area.available_bike_slots, area.booked_bike_slots>>

\* C5: round trip. A successful reservation of an available slot followed by
\* a successful completion on that slot leaves the slot available with no
\* booking reference and every area as it was before the reservation.
C5_RoundTrip ==
    [][\A p \in Procs :
          (/\ req[p].pc = "c_area" /\ Responds(p)
           /\ pre # <<>>
           /\ req[p].matched = Len(bookings))
          => /\ parking_areas' = pre
             /\ \A s \in slots' :
                    s._id = req[p].slot_id
                        => s.status = "available" /\ s.current_booking_id = 0]_vars

\* C6: a resize of an existing area to totals (C, B) that differ from its
\* current totals leaves exactly C car slots numbered 1..C and B bike slots
\* numbered 1..B for the area, all available and without booking reference,
\* and the counters available = total, booked = 0 for both types.
ResizeResult(allSlots, areas, a, C, B) ==
    LET mine == {s \in allSlots : s.parking_id = a}
        cars == {s \in mine : s.vehicle_type = "car"}
        bikes == {s \in mine : s.vehicle_type = "bike"}
    IN /\ mine = cars \cup bikes
       /\ Cardinality(cars) = C /\ {s.slot_number : s \in cars} = 1..C
       /\ Cardinality(bikes) = B /\ {s.slot_number : s \in bikes} = 1..B
       /\ \A s \in mine : s.status = "available" /\ s.current_booking_id = 0
       /\ areas[a].total_car_slots = C
       /\ areas[a].total_bike_slots = B
       /\ Counters(areas[a]) = <<C, 0, B, 0>>

C7_CompletionUsesStoredType ==
    [][\A p \in Procs :
          (req[p].pc = "c_area" /\ Responds(p))
          => \A a \in AreaIds :
                IF bookings[req[p].matched].vehicle_type = "car"
                THEN /\ parking_areas'[a].available_bike_slots
                            = parking_areas[a].available_bike_slots
                     /\ parking_areas'[a].booked_bike_slots
                            = parking_areas[a].booked_bike_slots
                ELSE /\ parking_areas'[a].available_car_slots
                            = parking_areas[a].available_car_slots
                     /\ parking_areas'[a].booked_car_slots
                            = parking_areas[a].booked_car_slots]_vars

\* C8: a completion on a slot that no active booking references answers
\* "No active booking found" and changes no booking, slot or area.
C8_NoActiveBookingNoChange ==
    [][\A p \in Procs :
          \* only a step that admits a completion at p can be such a step
          (/\ requests' # requests
           /\ ~InFlight(p)
           /\ \/ response' = "No active booking found"
              \/ req'[p].op = "complete")
          => \A slot_id \in SlotIdInputs :
          (/\ ~ \E b \in BookingIds : /\ bookings[b].slot_id = slot_id
                                       /\ bookings[b].status = "active"
           /\ \/ CompleteRefused(p, slot_id)
              \/ \E parking_id \in AreaIdInputs, vehicle_type \in VehicleTypes,
                    exit_time \in ExitTimes, amount \in Amounts :
                     CompleteUpdateBooking(p, slot_id, parking_id, vehicle_type,
                                           exit_time, amount))
          => /\ response' = "No active booking found"
             /\ ~InFlight(p)'
             /\ UNCHANGED <<bookings, slots, parking_areas>>]_vars

\* a completion was refused although a booking of some slot exists
C8_Witness ==
    /\ response = "No active booking found"
    /\ \E b \in BookingIds : bookings[b].status = "completed"

\* C9: a reservation of a slot that does not exist or is not available answers
\* "Slot not available" and creates no booking and changes no slot or area.
C9_SlotUnavailableNoChange ==
    [][\A p \in Procs :
          \* only a step that admits a reservation at p can be such a step
          (/\ requests' # requests
           /\ ~InFlight(p)
           /\ \/ response' = "Slot not available"
              \/ req'[p].op = "reserve")
          => \A slot_id \in SlotIdInputs :
          (/\ ~ \E s \in slots : s._id = slot_id /\ s.status = "available"
           /\ \/ ReserveRefused(p, slot_id)
              \/ \E parking_id \in AreaIdInputs, vehicle_type \in VehicleTypes :
                     ReserveFindSlot(p, parking_id, slot_id, vehicle_type))
          => /\ response' = "Slot not available"
             /\ ~InFlight(p)'
             /\ UNCHANGED <<bookings, slots, parking_areas>>]_vars

\* a reservation was refused while a slot is booked
C9_Witness ==
    /\ response = "Slot not available"
    /\ \E s \in slots : s.status = "booked"
    /\ Len(bookings) = 1

\* C10: concurrent completions of one slot: a booking is matched, and its
\* counter deltas applied, by at most one completion request; what a request
\* in flight has matched is completed and matched by no other request.
C10_AtMostOneCompletionPerBooking ==
    \A p \in Procs :
        req[p].op = "complete"
            => /\ req[p].matched \in BookingIds
               /\ bookings[req[p].matched].status = "completed"
               /\ \A q \in Procs \ {p} :
                      req[q].op = "complete" => req[q].matched # req[p].matched

\* a second completion of the slot was refused while the first is in flight
C10_Witness ==
    /\ response = "No active booking found"
    /\ Len(bookings) = 1
    /\ \E p \in Procs : req[p].op = "complete" /\ req[p].pc = "c_area"

\* C11: a reservation goes ahead only for a slot that belongs to the area the
\* request names and whose stored vehicle type is the request's: a booking is
\* inserted only for a request that agrees with its slot on both.
C11_ReserveChecksAreaAndType ==
    [][\A p \in Procs :
          (req[p].pc = "r_insert" /\ Len(bookings') = Len(bookings) + 1)
          => \E s \in slots :
                 /\ s._id = req[p].slot_id
                 /\ s.parking_id = req[p].parking_id
                 /\ s.vehicle_type = req[p].vehicle_type]_vars

\* C12: a reservation and a completion apply their writes as one unit: no
\* state, which any concurrent request may read, holds an active booking whose
\* slot is still available, or a booked slot whose booking is already
\* completed.
C12_WritesAreAtomic ==
    /\ \A b \in BookingIds :
           bookings[b].status = "active"
               => \A s \in FindSlot(bookings[b].slot_id) : s.status = "booked"
    /\ \A s \in slots :
           s.status = "booked"
               => /\ s.current_booking_id \in BookingIds
                  /\ bookings[s.current_booking_id].status = "active"

\* C13: a create or resize updates an area and its slot set as one unit: no
\* state, which any concurrent request may read, has an area whose totals are
\* not the numbers of its slots (totals written, slots not yet regenerated),
\* or whose counters do not add up to its totals (slots regenerated, counters
\* not yet reset).
C13_AreaAndSlotsAtomic ==
    \A a \in AreaIds :
        /\ Cardinality({s \in slots : s.parking_id = a /\ s.vehicle_type = "car"})
               = parking_areas[a].total_car_slots
        /\ Cardinality({s \in slots : s.parking_id = a /\ s.vehicle_type = "bike"})
               = parking_areas[a].total_bike_slots
        /\ parking_areas[a].available_car_slots + parking_areas[a].booked_car_slots
               = parking_areas[a].total_car_slots
        /\ parking_areas[a].available_bike_slots + parking_areas[a].booked_bike_slots
               = parking_areas[a].total_bike_slots

\* C14: a booking is inserted active, goes from active to completed at most
\* once and is never changed after that: no step of any handler changes the
\* status, exit time or amount of a completed booking, and no step removes a
\* booking.
C14_BookingStateMachine ==
    [][/\ Len(bookings') >= Len(bookings)
       /\ \A b \in BookingIds :
              /\ bookings[b].status = "completed" => bookings'[b] = bookings[b]
              /\ bookings[b].status = "active"
                     => bookings'[b].status \in {"active", "completed"}
       /\ \A b \in (Len(bookings) + 1)..Len(bookings') :
              bookings'[b].status = "active"]_vars

\* a slot whose first booking is completed has been reserved again
C14_Witness ==
    /\ Len(bookings) = 2
    /\ bookings[1].status = "completed"
    /\ bookings[2].status = "active"
    /\ bookings[1].slot_id = bookings[2].slot_id
    /\ response = "Slot booked"

\* area requests that may carry a new location, and reservations, one request
\* at a time (a completion writes nothing that the area handler reads)
AllLocations == {"L1", "L2"}

SeqRelocate == Quiescent /\ CreateOrResize(Names, AllLocations)

NextSeqLoc ==
    \/ SeqReserve \/ SeqRelocate
    \/ ReserveStep \/ AreaStep

SpecSeqLoc == Init /\ [][NextSeqLoc]_vars

\* C15: a request for an existing area whose two totals are the area's
\* current totals answers after its first write; that write changes the
\* location of the area and nothing else: every slot, every booking, every
\* other area and all totals and counters stay as they were.
C15_SameTotalsOnlyLocation ==
    [][\A p \in Procs :
          (/\ req[p].pc = "a_update"
           /\ req'[p] # req[p]
           /\ req[p].total_car_slots
                  = parking_areas[req[p].existingId].total_car_slots
           /\ req[p].total_bike_slots
                  = parking_areas[req[p].existingId].total_bike_slots)
          => /\ Responds(p)
             /\ response' = "Parking area updated successfully"
             /\ UNCHANGED <<slots, bookings>>
             /\ parking_areas' = [parking_areas EXCEPT
                    ![req[p].existingId].location = req[p].location]]_vars

\* an area with a booked slot was moved and its slots were never regenerated
C15_Witness ==
    /\ response = "Parking area updated successfully"
    /\ Len(parking_areas) = 1
    /\ parking_areas[1].location = "L2"
    /\ \E s \in slots : s._id = 1 /\ s.status = "booked" /\ s.parking_id = 1
    /\ nextSlotId = 1 + parking_areas[1].total_car_slots
                      + parking_areas[1].total_bike_slots

\* the sequential specification with a second area name
AllNames == {"A", "B"}

SeqCreateOrResizeAny == Quiescent /\ CreateOrResize(AllNames, Locations)

NextSeqNames ==
    \/ SeqReserve \/ SeqComplete \/ SeqCreateOrResizeAny
    \/ ReserveStep \/ CompleteStep \/ AreaStep

SpecSeqNames == Init /\ [][NextSeqNames]_vars

\* C16: a request whose name no area has takes the create branch; its
\* insertOne appends one area with the requested totals, available = total and
\* booked = 0 for both types, and its insertMany adds exactly total_car car
\* slots and total_bike bike slots of the new area, numbered from 1, available
\* and without booking reference; the other areas, the other slots and the
\* bookings stay as they were.
C16_CreateNewArea ==
    [][\A p \in Procs :
          /\ (/\ requests' # requests /\ ~InFlight(p) /\ req'[p].op = "area"
              /\ AreasNamed(req'[p].name) = {})
             => req'[p].pc = "a_create"
          /\ (req[p].pc = "a_create" /\ req'[p] # req[p])
             => /\ Len(parking_areas') = Len(parking_areas) + 1
                /\ \A a \in AreaIds : parking_areas'[a] = parking_areas[a]
                /\ LET area == parking_areas'[Len(parking_areas')] IN
                   /\ area.name = req[p].name
                   /\ area.total_car_slots = req[p].total_car_slots
                   /\ area.total_bike_slots = req[p].total_bike_slots
                   /\ Counters(area) = <<req[p].total_car_slots, 0,
                                         req[p].total_bike_slots, 0>>
                /\ req'[p].pc = "a_createSlots"
                /\ UNCHANGED <<slots, bookings>>
          /\ (req[p].pc = "a_createSlots" /\ req'[p] # req[p])
             => /\ Responds(p)
                /\ response' = "Parking area created"
                /\ ResizeResult(slots', parking_areas', req[p].insertedId,
                                req[p].total_car_slots, req[p].total_bike_slots)
                /\ {s \in slots' : s.parking_id # req[p].insertedId} = slots
                /\ UNCHANGED <<parking_areas, bookings>>]_vars

\* a second area was created while a slot of the first is booked
C16_Witness ==
    /\ response = "Parking area created"
    /\ Len(parking_areas) = 2
    /\ parking_areas[1].name # parking_areas[2].name
    /\ \E s \in slots : s.parking_id = 1 /\ s.status = "booked"
    /\ \E s \in slots : s.parking_id = 2

\* C17: in every reachable state, concurrent creates with one name included,
\* no two areas have the same name.
C17_AreaNamesUnique ==
    \A a, b \in AreaIds : a # b => parking_areas[a].name # parking_areas[b].name

\* C18: whenever no request is in flight, two concurrent resizes of one area
\* included, the slots of every area and vehicle type have distinct slot
\* numbers and are as many as the area's total for that type.
C18_SlotNumbersUniqueAndComplete ==
    Quiescent =>
        \A a \in AreaIds, vehicle_type \in VehicleTypes :
            LET mine == {s \in slots : s.parking_id = a
                                        /\ s.vehicle_type = vehicle_type}
            IN /\ \A s, t \in mine : s.slot_number = t.slot_number => s = t
               /\ Cardinality(mine) =
                      IF vehicle_type = "car" THEN parking_areas[a].total_car_slots
                                              ELSE parking_areas[a].total_bike_slots

\* C19: a resize that changes a total writes no booking; its deleteMany
\* removes every slot of the area, the booked ones included, so that a booking
\* of such a slot refers to no slot; its insertMany adds slots only under _ids
\* that no booking holds. Bookings active before the resize are active after
\* it and refer to no slot.
C19_ResizeOrphansBookings ==
    [][\A p \in Procs :
          (/\ req[p].pc \in {"a_update", "a_delete", "a_insert", "a_reset"}
           /\ req[p].slotsChanged
           /\ req'[p] # req[p])
          => /\ bookings' = bookings
             /\ req[p].pc = "a_delete"
                    => /\ \A s \in slots' : s.parking_id # req[p].existingId
                       /\ \A b \in BookingIds :
                              (\E s \in FindSlot(bookings[b].slot_id) :
                                   s.parking_id = req[p].existingId)
                              => \A s \in slots' : s._id # bookings[b].slot_id
             /\ req[p].pc = "a_insert"
                    => \A s \in slots' \ slots, b \in BookingIds :
                           s._id # bookings[b].slot_id
             /\ req[p].pc = "a_reset"
                    => /\ Responds(p)
                       /\ \A s \in slots', b \in BookingIds :
                              s.parking_id = req[p].existingId
                                  => s._id # bookings[b].slot_id]_vars

\* a resize has answered: the area has new slots, and a booking made before
\* it is still active and refers to none of them
C19_Witness ==
    /\ Quiescent
    /\ response = "Parking area updated successfully"
    /\ \E b \in BookingIds :
           /\ bookings[b].status = "active"
           /\ \A s \in slots : s._id # bookings[b].slot_id
           /\ \E s \in slots : /\ s.parking_id = bookings[b].parking_id
                               /\ s._id > bookings[b].slot_id

\* C20: after any sequence of calls, for every area and vehicle type,
\* 0 <= booked <= total and 0 <= available <= total; a completion issued
\* after a resize for a booking made before it included.
C20_CountersWithinBounds ==
    Quiescent =>
        \A a \in AreaIds :
            /\ parking_areas[a].booked_car_slots \in
                   0..parking_areas[a].total_car_slots
            /\ parking_areas[a].available_car_slots \in
                   0..parking_areas[a].total_car_slots
            /\ parking_areas[a].booked_bike_slots \in
                   0..parking_areas[a].total_bike_slots
            /\ parking_areas[a].available_bike_slots \in
                   0..parking_areas[a].total_bike_slots

\* C21: whenever no request is in flight, a slot is booked exactly when it
\* carries a booking reference; the referenced booking is active and is a
\* booking of that slot; and no active booking refers to an available slot.
C21_SlotAndBookingAgree ==
    Quiescent =>
        /\ \A s \in slots :
               /\ s.status = "booked" <=> s.current_booking_id # 0
               /\ s.status = "booked"
                      => /\ s.current_booking_id \in BookingIds
                         /\ bookings[s.current_booking_id].status = "active"
                         /\ bookings[s.current_booking_id].slot_id = s._id
        /\ \A b \in BookingIds, s \in slots :
               (bookings[b].status = "active" /\ bookings[b].slot_id = s._id)
                   => s.status # "available"

\* --------------------------------------------------------------- connectDB
\* the collections and the request handlers
store == <<parking_areas, slots, bookings, nextSlotId, req, response, requests, pre>>

\* the module has just been loaded: connectDB() has set retries = 5 and its
\* first client.connect() is in flight
InitStartup ==
    /\ parking_areas = <<>>
    /\ slots = {}
    /\ bookings = <<>>
    /\ nextSlotId = 1
    /\ req = [p \in Procs |-> NoReq]
    /\ response = "none"
    /\ requests = 0
    /\ pre = <<>>
    /\ connection = "connecting"
    /\ retries = MaxRetries
    /\ attempts = 1

\* client.connect() resolves: return client.db("ParkingSystem")
ConnectResolved ==
    /\ connection = "connecting"
    /\ connection' = "connected"
    /\ UNCHANGED <<retries, attempts, store>>

\* a rejection that does not count down
ConnectRejected_NoCountdown ==
    /\ connection = "connecting"
    /\ connection' = "sleeping"
    /\ UNCHANGED <<retries, attempts, store>>

\* client.connect() rejects: retries -= 1, then process.exit(1) at 0 or the
\* 2 s timer
ConnectRejected ==
    /\ connection = "connecting"
    /\ retries' = retries - 1
    /\ connection' = IF retries' = 0 THEN "exited" ELSE "sleeping"
    /\ UNCHANGED <<attempts, store>>

\* the timer fires: while (retries) is evaluated again; the loop body calls
\* client.connect(), and a loop that ended would return no handle
ConnectRetry ==
    /\ connection = "sleeping"
    /\ IF retries # 0
       THEN /\ connection' = "connecting"
            /\ attempts' = attempts + 1
       ELSE /\ connection' = "returned"
            /\ attempts' = attempts
    /\ UNCHANGED <<retries, store>>

\* startup, then requests one after the other
NextStartup ==
    \/ ConnectResolved \/ ConnectRejected \/ ConnectRetry
    \/ NextSeq

\* a connection attempt settles (the driver's server selection times out) and
\* the timer fires
SpecStartup ==
    /\ InitStartup
    /\ [][NextStartup]_vars
    /\ WF_vars(ConnectResolved \/ ConnectRejected)
    /\ WF_vars(ConnectRetry)

\* C22: connectDB calls client.connect() at most 5 times; once an attempt has
\* succeeded no further attempt is made; the process exits exactly when the
\* fifth attempt fails; and connectDB always ends, with the handle or with the
\* exit of the process.
C22_BoundedRetry ==
    /\ [](attempts <= MaxRetries)
    /\ [][/\ connection = "connected"
              => (connection' = "connected" /\ attempts' = attempts)
          /\ (connection = "connecting" /\ connection' # "connected"
                 /\ connection' # connection)
              => (connection' = "exited" <=> attempts = MaxRetries)]_vars
    /\ <>(connection \in {"connected", "exited"})

\* the fifth attempt has failed and the process has exited
C22_Witness ==
    /\ connection = "exited"
    /\ attempts = MaxRetries
    /\ retries = 0

=============================================================================
